---- MODULE Spec2Model ----
(***************************************************************************)
(* A model of the live visual editing engine of PRISM (src/src/App.tsx,    *)
(* and the earlier revision of the same file kept as src/unnamed/part_002):*)
(* the rendering surface, the selector codec, the edit ledger, its         *)
(* debounced persistence in localStorage and its replay.                   *)
(***************************************************************************)
EXTENDS Integers, Sequences, FiniteSets, TLC

(***************************************************************************)
(* Bounds of the model.                                                    *)
(***************************************************************************)
\* how many recording changes of the inspector one behaviour makes
MaxRecords == 2
\* how many entries a ledger drawn as an input of replay holds
MaxLedger == 3
\* inserted icons on the surface
MaxIcons == 1
\* colors of a gradient: the gradient editor adds a color while there are fewer
MaxColors == 5

(***************************************************************************)
(* Inputs: project identifiers, property names and values.                 *)
(***************************************************************************)
ProjectIds == {"pA", "pB"}
NoProject == "null"
StyleProps == {"color", "background"}
TextContent == "textContent"
PageBackground == "pageBackground"
\* the inspector changes the model makes: (property, value)
InspectorChanges ==
    {<<"color", "#ff0000">>, <<"color", "#00ff00">>, <<TextContent, "Hello">>}
\* a style property, or a text, as the document gives it: not written by the editor
Unset == ""
SelectedClass == "step1-selected"

(***************************************************************************)
(* A generated document, as DOMParser sees it: a sequence of element       *)
(* descriptions in document order, each naming its parent by index (0 is   *)
(* the content wrapper).  className is kept as its sequence of tokens.     *)
(***************************************************************************)
HeroDocument ==
    << [tag |-> "div", id |-> "",      className |-> <<"hero">>,       parent |-> 0],
       [tag |-> "h1",  id |-> "title", className |-> <<"big">>,        parent |-> 1],
       [tag |-> "p",   id |-> "",      className |-> <<>>,             parent |-> 1],
       [tag |-> "p",   id |-> "",      className |-> <<>>,             parent |-> 1] >>

\* the documents the two projects of the application model are generated with
DocumentA ==
    << [tag |-> "h1",  id |-> "",      className |-> <<"hero-title">>, parent |-> 0],
       [tag |-> "p",   id |-> "lead",  className |-> <<>>,             parent |-> 0] >>

DocumentB ==
    << [tag |-> "h2",  id |-> "",      className |-> <<"banner">>,     parent |-> 0] >>

(***************************************************************************)
(* The rendering surface.  Element 0 is the surface root (the element       *)
(* carrying data-prism-preview-container); elements 1..n are the generated  *)
(* elements in document order.  Each element keeps the attributes the       *)
(* document gave it, its class list, its inline style, its text and whether *)
(* it is still attached to the surface.                                     *)
(***************************************************************************)
SurfaceRoot == [tag |-> "div", id |-> "", className |-> <<>>, parent |-> 0 - 1]

FreshElement(e) ==
    [tag |-> e.tag, id |-> e.id, className |-> e.className, parent |-> e.parent,
     style |-> [p \in StyleProps |-> Unset], outline |-> Unset, text |-> Unset,
     attached |-> TRUE]

\* loadPreviewContent: previewContainerRef.current.innerHTML = '' and
\* contentWrapper.innerHTML = cleanBodyContent
FreshTree(doc) ==
    [n \in 0..Len(doc) |-> IF n = 0 THEN FreshElement(SurfaceRoot) ELSE FreshElement(doc[n])]

NoTree == << >>

Elements(tree) == (DOMAIN tree) \ {0}

Range(seq) == {seq[i] : i \in DOMAIN seq}

\* element m lies below element n
RECURSIVE IsDescendant(_, _, _)
IsDescendant(tree, m, n) ==
    IF m <= 0 THEN FALSE
    ELSE tree[m].parent = n \/ IsDescendant(tree, tree[m].parent, n)

(***************************************************************************)
(* Selector codec.  A selector string is kept as the sequence of its       *)
(* tokens: "#title" is <<"#", "title">>, ".a.b" is <<".", "a", ".", "b">>, *)
(* "p:nth-of-type(2)" is <<"p", ":nth-of-type(", "2", ")">>, "" is << >>.  *)
(***************************************************************************)
Decimal == <<"1", "2", "3", "4", "5", "6">>

\* classes.join('.') prefixed by '.'
RECURSIVE JoinClasses(_)
JoinClasses(tokens) ==
    IF tokens = << >> THEN << >>
    ELSE <<".", Head(tokens)>> \o JoinClasses(Tail(tokens))

\* Array.from(parent.children).filter(child => child.tagName === element.tagName)
SameTagSiblings(tree, n) ==
    {m \in Elements(tree) : /\ tree[m].attached
                            /\ tree[m].parent = tree[n].parent
                            /\ tree[m].tag = tree[n].tag}

\* siblings.indexOf(element)
IndexAmongSiblings(tree, n) == Cardinality({m \in SameTagSiblings(tree, n) : m < n})

\* a selector generation that looks at the class list before the id
generateSelectorClassFirst(tree, n) ==
    IF tree[n].className # << >> THEN JoinClasses(tree[n].className)
    ELSE IF tree[n].id # "" THEN <<"#", tree[n].id>>
    ELSE <<tree[n].tag, ":nth-of-type(", Decimal[IndexAmongSiblings(tree, n) + 1], ")">>

generateSelectorForElement(tree, n) ==
    IF tree[n].id # "" THEN <<"#", tree[n].id>>
    ELSE IF tree[n].className # << >> THEN JoinClasses(tree[n].className)
    ELSE <<tree[n].tag, ":nth-of-type(", Decimal[IndexAmongSiblings(tree, n) + 1], ")">>

getElementSelector(tree, n) ==
    IF tree[n].id # "" THEN <<"#", tree[n].id>>
    ELSE IF tree[n].className # << >> THEN <<".", tree[n].className[1]>>
    ELSE <<tree[n].tag>>

\* what the selector parser of querySelectorAll accepts
IsIdSelector(sel) == Len(sel) = 2 /\ sel[1] = "#"
IsClassSelector(sel) ==
    /\ Len(sel) >= 2
    /\ Len(sel) % 2 = 0
    /\ \A i \in DOMAIN sel : i % 2 = 1 => sel[i] = "."
IsNthOfTypeSelector(sel) == Len(sel) = 4 /\ sel[2] = ":nth-of-type(" /\ sel[4] = ")"
IsTypeSelector(sel) == Len(sel) = 1 /\ sel[1] \notin {"#", "."}
SelectorParses(sel) ==
    IsIdSelector(sel) \/ IsClassSelector(sel) \/ IsNthOfTypeSelector(sel) \/ IsTypeSelector(sel)

ElementMatches(tree, n, sel) ==
    IF IsIdSelector(sel) THEN tree[n].id = sel[2]
    ELSE IF IsClassSelector(sel)
        THEN \A i \in DOMAIN sel : i % 2 = 0 => sel[i] \in Range(tree[n].className)
    ELSE IF IsNthOfTypeSelector(sel)
        THEN tree[n].tag = sel[1] /\ Decimal[IndexAmongSiblings(tree, n) + 1] = sel[3]
    ELSE IF IsTypeSelector(sel) THEN tree[n].tag = sel[1]
    ELSE FALSE

\* contentWrapper.querySelectorAll(selector), for a selector that parses
querySelectorAll(tree, sel) ==
    {n \in Elements(tree) : tree[n].attached /\ ElementMatches(tree, n, sel)}

(***************************************************************************)
(* Style edits and their application to the surface.                       *)
(*   StyleEdit = {selector, property, value, timestamp}; the timestamp is  *)
(*   written and never read, and is left out.                              *)
(***************************************************************************)
StyleEdit(selector, property, value) ==
    [selector |-> selector, property |-> property, value |-> value]

\* a text write that adds to the text already there
SetTextContentAppends(tree, matches, value) ==
    [m \in DOMAIN tree |->
        IF m \in matches THEN [tree[m] EXCEPT !.text = @ \o value]
        ELSE IF \E n \in matches : IsDescendant(tree, m, n)
            THEN [tree[m] EXCEPT !.attached = FALSE]
        ELSE tree[m]]

\* element.textContent = value on every element of `matches`: the text is
\* replaced and everything below the element leaves the surface
SetTextContent(tree, matches, value) ==
    [m \in DOMAIN tree |->
        IF m \in matches THEN [tree[m] EXCEPT !.text = value]
        ELSE IF \E n \in matches : IsDescendant(tree, m, n)
            THEN [tree[m] EXCEPT !.attached = FALSE]
        ELSE tree[m]]

\* element.style.setProperty(property, value, 'important') on every element
\* of `matches`; a name that is no CSS property is ignored by the style object
SetStyleProperty(tree, matches, property, value) ==
    [m \in DOMAIN tree |->
        IF m \in matches /\ property \in StyleProps
            THEN [tree[m] EXCEPT !.style[property] = value]
        ELSE tree[m]]

\* the body of edits.forEach in LivePreview's effect, for a selector that parses
ApplyEdit(tree, edit) ==
    IF edit.property = TextContent
        THEN SetTextContent(tree, querySelectorAll(tree, edit.selector), edit.value)
        ELSE SetStyleProperty(tree, querySelectorAll(tree, edit.selector),
                              edit.property, edit.value)

\* a replay that an entry without a match brings to an end
RECURSIVE ReplaySavedEditsEndsAtOrphan(_, _)
ReplaySavedEditsEndsAtOrphan(tree, edits) ==
    IF edits = << >> THEN tree
    ELSE IF ~SelectorParses(Head(edits).selector) THEN tree
    ELSE IF querySelectorAll(tree, Head(edits).selector) = {} THEN tree
    ELSE ReplaySavedEditsEndsAtOrphan(ApplyEdit(tree, Head(edits)), Tail(edits))

\* LivePreview's "load and apply saved edits" timer callback: edits.forEach
\* with no try/catch, so a selector querySelectorAll rejects ends the loop
RECURSIVE ReplaySavedEdits(_, _)
ReplaySavedEdits(tree, edits) ==
    IF edits = << >> THEN tree
    ELSE IF ~SelectorParses(Head(edits).selector) THEN tree
    ELSE ReplaySavedEdits(ApplyEdit(tree, Head(edits)), Tail(edits))

RECURSIVE SelectorText(_)
SelectorText(tokens) ==
    IF tokens = << >> THEN "" ELSE Head(tokens) \o SelectorText(Tail(tokens))

\* `${edit.selector}-${edit.property}-${edit.value}`
EditKey(edit) == SelectorText(edit.selector) \o "-" \o edit.property \o "-" \o edit.value

\* the body of elements.forEach in applyStyleEdits (earlier revision)
ApplyStyleEdit(tree, edit) ==
    LET matches == querySelectorAll(tree, edit.selector) IN
    IF edit.property = TextContent THEN SetTextContent(tree, matches, edit.value)
    ELSE IF edit.property = PageBackground
        THEN IF matches = {} THEN tree
             ELSE SetStyleProperty(tree, matches \cup {0}, "background", edit.value)
    ELSE SetStyleProperty(tree, matches, edit.property, edit.value)

\* edits.forEach of applyStyleEdits: an edit whose key was already applied is
\* skipped, and a selector that throws is caught and the loop goes on
RECURSIVE ApplyStyleEditsFrom(_, _, _)
ApplyStyleEditsFrom(tree, edits, appliedEdits) ==
    IF edits = << >> THEN tree
    ELSE LET edit == Head(edits) IN
         IF EditKey(edit) \in appliedEdits
             THEN ApplyStyleEditsFrom(tree, Tail(edits), appliedEdits)
         ELSE IF ~SelectorParses(edit.selector)
             THEN ApplyStyleEditsFrom(tree, Tail(edits), appliedEdits)
         ELSE ApplyStyleEditsFrom(ApplyStyleEdit(tree, edit), Tail(edits),
                                  appliedEdits \cup {EditKey(edit)})

\* applyStyleEdits(edits, containerElement) of the earlier revision; the
\* data-applying-edits attribute is set and removed inside the call
applyStyleEdits(tree, edits) == ApplyStyleEditsFrom(tree, edits, {})

(***************************************************************************)
(* State of the application (function App and its children).               *)
(***************************************************************************)
VARIABLES
    currentView,            \* 'landing' | 'project' | 'editor-workspace'
    currentProject,         \* id of the SavedDesign in currentProject, or null
    generatedResult,        \* id of the GeneratedResult displayed, or null
    editMode,               \* LivePreview is mounted while this is TRUE
    savedDesigns,           \* React state: the saved designs and their edits
    currentProjectEditsRef, \* the in-memory Edit Ledger
    prismSavedDesigns,      \* localStorage['prism-saved-designs']
    editsKey,               \* localStorage['edits-<id>'], per project id
    saveTimers,             \* pending setTimeout(..., 300) of addStyleEdit
    designsTimer,           \* pending setTimeout(..., 2000) writing savedDesigns
    tree,                   \* the rendering surface, NoTree while unmounted
    selectedElement,        \* LiveEditor state: the element selected, 0 for null
    recorded,               \* number of record calls made so far
    panelInteractionRef,    \* LiveEditor's panelInteractionRef.current
    activeElement,          \* where document.activeElement lies
    editor,                 \* the inline editor standing in for an element
    gradientColors,         \* gradientData.colors of the gradient editor
    gradientSource,         \* the gradient string on the element, << >> for none
    allColors,              \* the colors the inspector extracted from it
    pointerOver,            \* the elements the pointer has entered and not left
    textNodes               \* the text nodes of loadPreviewContent's tempDiv

vars == <<currentView, currentProject, generatedResult, editMode, savedDesigns,
          currentProjectEditsRef, prismSavedDesigns, editsKey, saveTimers,
          designsTimer, tree, selectedElement, recorded, panelInteractionRef,
          activeElement, editor, gradientColors, gradientSource, allColors,
          pointerOver, textNodes>>

\* the pointer over the surface, and the text nodes of the document being loaded
loadVars == <<pointerOver, textNodes>>

\* the state of the gradient editor of the inspector
codecVars == <<gradientColors, gradientSource, allColors>>

\* no gradient is being edited
NoGradient == gradientColors = << >> /\ gradientSource = << >> /\ allColors = << >>

\* the state of LiveEditor and LivePreview beside the selection
sessionVars == <<panelInteractionRef, activeElement, editor>>

\* no inline editor is open
NoEditor == [element |-> 0, originalText |-> Unset, textContent |-> Unset]

\* LiveEditor and LivePreview mount: refs and state start from their initial
\* values, and the focus is on no element of theirs
LiveEditorMounts ==
    /\ panelInteractionRef' = FALSE
    /\ activeElement' = "body"
    /\ editor' = NoEditor

NoDesign == [saved |-> FALSE, edits |-> << >>]
Design(edits) == [saved |-> TRUE, edits |-> edits]

\* the project whose stored ledger the replay specification draws
ReplayProject == "pR"

\* generatedResult.code of each project
DocumentOf(id) ==
    IF id = "pA" THEN DocumentA ELSE IF id = "pB" THEN DocumentB ELSE HeroDocument

\* the elements a click can land on
ElementsOfDocuments ==
    UNION {Elements(FreshTree(DocumentOf(id))) : id \in ProjectIds \cup {ReplayProject}}

\* localStorage['prism-current-project'] is rewritten by an effect after every
\* change of currentProject, and removed when it becomes null
PrismCurrentProject == currentProject

(***************************************************************************)
(* Edit Ledger: record.                                                    *)
(***************************************************************************)
\* currentProjectEditsRef.current.filter(...) followed by [...filtered, newEdit]
RECURSIVE FilterOut(_, _, _)
FilterOut(edits, selector, property) ==
    IF edits = << >> THEN << >>
    ELSE IF Head(edits).selector = selector /\ Head(edits).property = property
        THEN FilterOut(Tail(edits), selector, property)
    ELSE <<Head(edits)>> \o FilterOut(Tail(edits), selector, property)

\* a record that appends without removing the earlier entry of the pair
RecordEditAppends(edits, selector, property, value) ==
    Append(edits, StyleEdit(selector, property, value))

RecordEdit(edits, selector, property, value) ==
    Append(FilterOut(edits, selector, property), StyleEdit(selector, property, value))

\* the project id addStyleEdit schedules the save for: currentProject?.id, else
\* the id found in localStorage['prism-current-project']
ProjectIdForSave ==
    IF currentProject # NoProject THEN currentProject ELSE PrismCurrentProject

\* saveProjectWithEdits(projectId, edits): only localStorage is written, and only
\* when the design is found there
saveProjectWithEdits(stored, projectId, edits) ==
    IF stored[projectId].saved
        THEN [stored EXCEPT ![projectId] = Design(edits)]
        ELSE stored

\* saveEdits of the "save edits on unmount or when the project changes" effect
saveEdits(stored, project, edits) ==
    IF project # NoProject /\ edits # << >> THEN
        IF stored[project].saved /\ stored[project].edits # edits
            THEN [stored EXCEPT ![project] = Design(edits)]
            ELSE stored
    ELSE stored

(***************************************************************************)
(* LivePreview: mounting builds the surface from the generated document,   *)
(* then the "load and apply saved edits" effect replays                    *)
(* localStorage['edits-<id>'] of the current project.                      *)
(***************************************************************************)
ReplayFor(project, surface) ==
    IF project # NoProject /\ editsKey[project].saved
        THEN ReplaySavedEdits(surface, editsKey[project].edits)
        ELSE surface

MountLivePreview(result, project) == ReplayFor(project, FreshTree(DocumentOf(result)))

\* the class insertIcon gives the element it creates
IconClass == "prism-inserted-icon"

IsIcon(surface, n) == IconClass \in Range(surface[n].className)

\* a click that leaves the earlier marks where they are
KeepSelectionMarks(surface) == surface

\* classList.remove('step1-selected') on every element of the surface
ClearSelectionMarks(surface) ==
    [n \in DOMAIN surface |->
        [surface[n] EXCEPT !.className =
            SelectSeq(surface[n].className, LAMBDA c : c # SelectedClass)]]

\* classList.add('step1-selected')
AddSelectionMark(surface, n) ==
    IF SelectedClass \in Range(surface[n].className) THEN surface
    ELSE [surface EXCEPT ![n].className = Append(@, SelectedClass)]

Init ==
    /\ currentView = "landing"
    /\ currentProject = NoProject
    /\ generatedResult = NoProject
    /\ editMode = FALSE
    /\ savedDesigns = [id \in ProjectIds |-> NoDesign]
    /\ currentProjectEditsRef = << >>
    /\ prismSavedDesigns = [id \in ProjectIds |-> NoDesign]
    /\ editsKey = [id \in ProjectIds |-> NoDesign]
    /\ saveTimers = << >>
    /\ designsTimer = TRUE      \* the effect runs when App mounts
    /\ tree = NoTree
    /\ selectedElement = 0
    /\ recorded = 0
    /\ panelInteractionRef = FALSE
    /\ activeElement = "body"
    /\ editor = NoEditor
    /\ pointerOver = {}
    /\ textNodes = << >>
    /\ NoGradient

(***************************************************************************)
(* Navigation.                                                             *)
(***************************************************************************)
LivePreviewMounted == tree # NoTree

\* handleSubmit, from the prompt to the auto-save of the generated design.
\* currentProject and currentProjectEditsRef are not touched.
HandleSubmit(id) ==
    /\ currentView = "landing"
    /\ ~savedDesigns[id].saved /\ ~prismSavedDesigns[id].saved
    /\ currentView' = "editor-workspace"
    /\ generatedResult' = id
    /\ savedDesigns' = [savedDesigns EXCEPT ![id] = Design(<< >>)]
    /\ designsTimer' = TRUE
    /\ tree' = IF editMode THEN MountLivePreview(id, currentProject) ELSE NoTree
    /\ selectedElement' = 0
    /\ LiveEditorMounts
    /\ UNCHANGED codecVars
    /\ pointerOver' = {}            \* the elements of the surface are new ones
    /\ UNCHANGED textNodes
    /\ UNCHANGED <<currentProject, editMode, currentProjectEditsRef, prismSavedDesigns,
                   editsKey, saveTimers, recorded>>

\* openProject(design) and loadSavedDesign(design)
OpenProject(id) ==
    /\ currentView = "landing"
    /\ savedDesigns[id].saved
    /\ currentProject' = id
    /\ currentView' = "project"
    /\ generatedResult' = id
    /\ tree' = IF editMode THEN MountLivePreview(id, id) ELSE NoTree
    /\ selectedElement' = 0
    /\ LiveEditorMounts
    /\ UNCHANGED codecVars
    /\ pointerOver' = {}            \* the elements of the surface are new ones
    /\ UNCHANGED textNodes
    /\ UNCHANGED <<editMode, savedDesigns, currentProjectEditsRef, prismSavedDesigns,
                   editsKey, saveTimers, designsTimer, recorded>>

\* goToLanding, its 100 ms timer, and the cleanup of the save-on-change effect
GoToLanding ==
    /\ currentView # "landing"
    /\ prismSavedDesigns' =
         LET atLeave == IF currentProject # NoProject /\ currentProjectEditsRef # << >>
                        THEN saveProjectWithEdits(prismSavedDesigns, currentProject,
                                                  currentProjectEditsRef)
                        ELSE prismSavedDesigns
         IN saveEdits(atLeave, currentProject, currentProjectEditsRef)
    /\ currentView' = "landing"
    /\ currentProject' = NoProject
    /\ generatedResult' = NoProject
    /\ tree' = NoTree
    /\ selectedElement' = 0
    /\ LiveEditorMounts
    /\ UNCHANGED codecVars
    /\ pointerOver' = {}            \* the elements of the surface are new ones
    /\ UNCHANGED textNodes
    /\ UNCHANGED <<editMode, savedDesigns, currentProjectEditsRef, editsKey, saveTimers,
                   designsTimer, recorded>>

\* handleToggleEditMode; LiveEditor clears the selection when edit mode ends
HandleToggleEditMode ==
    /\ currentView # "landing"
    /\ generatedResult # NoProject
    /\ editMode' = ~editMode
    /\ tree' = IF editMode THEN NoTree ELSE MountLivePreview(generatedResult, currentProject)
    /\ selectedElement' = 0
    /\ LiveEditorMounts
    /\ UNCHANGED codecVars
    /\ pointerOver' = {}            \* the elements of the surface are new ones
    /\ UNCHANGED textNodes
    /\ UNCHANGED <<currentView, currentProject, generatedResult, savedDesigns,
                   currentProjectEditsRef, prismSavedDesigns, editsKey, saveTimers,
                   designsTimer, recorded>>

\* handleRefreshPreview: refreshKey changes and App renders again. Workspace is
\* a component defined inside App, so every render of App gives it a new type
\* and React mounts LiveEditor and LivePreview anew: the selection state is
\* lost and the surface is built again from the document, then replayed.
HandleRefreshPreview ==
    /\ currentView # "landing"
    /\ LivePreviewMounted
    /\ tree' = MountLivePreview(generatedResult, currentProject)
    /\ selectedElement' = 0
    /\ LiveEditorMounts
    /\ UNCHANGED codecVars
    /\ pointerOver' = {}            \* the elements of the surface are new ones
    /\ UNCHANGED textNodes
    /\ UNCHANGED <<currentView, currentProject, generatedResult, editMode, savedDesigns,
                   currentProjectEditsRef, prismSavedDesigns, editsKey, saveTimers,
                   designsTimer, recorded>>

(***************************************************************************)
(* Selection and the property inspector.                                   *)
(***************************************************************************)
\* the click listener loadPreviewContent gives every generated element
ClickElement(n) ==
    /\ LivePreviewMounted
    /\ n \in Elements(tree) /\ tree[n].attached
    /\ ~IsIcon(tree, n)
    /\ editor = NoEditor          \* a pointer-down elsewhere blurs the editor first
    /\ selectedElement = 0         \* no .properties-panel in the document
    /\ tree' = AddSelectionMark(ClearSelectionMarks(tree), n)
    /\ selectedElement' = n
    /\ UNCHANGED sessionVars
    /\ UNCHANGED codecVars
    /\ UNCHANGED loadVars
    /\ UNCHANGED <<currentView, currentProject, generatedResult, editMode, savedDesigns,
                   currentProjectEditsRef, prismSavedDesigns, editsKey, saveTimers,
                   designsTimer, recorded>>

\* handleClosePanel, and handleClickOutside on a pointer-down outside
HandleClosePanel ==
    /\ selectedElement # 0
    /\ editor = NoEditor
    /\ selectedElement' = 0
    /\ activeElement' = IF activeElement = "panel" THEN "body" ELSE activeElement
    /\ UNCHANGED codecVars
    /\ UNCHANGED loadVars
    /\ UNCHANGED <<panelInteractionRef, editor>>
    /\ UNCHANGED <<currentView, currentProject, generatedResult, editMode, savedDesigns,
                   currentProjectEditsRef, prismSavedDesigns, editsKey, saveTimers,
                   designsTimer, tree, recorded>>

\* the inspector shows the text control for an element without element children
HasElementChildren(surface, n) ==
    \/ \E m \in Elements(surface) : surface[m].attached /\ surface[m].parent = n
    \/ IsIcon(surface, n)          \* an inserted icon holds its svg

\* the live mutation handlePropertyChange makes on the selected element
LiveMutation(surface, n, property, value) ==
    IF property = TextContent THEN SetTextContent(surface, {n}, value)
    ELSE SetStyleProperty(surface, {n}, property, value)

\* addStyleEdit(selector, property, value): the ledger is updated, and a save
\* is scheduled when a project id is found
AddStyleEdit(selector, property, value) ==
    /\ currentProjectEditsRef' = RecordEdit(currentProjectEditsRef, selector, property, value)
    /\ saveTimers' = IF ProjectIdForSave # NoProject
                     THEN Append(saveTimers, ProjectIdForSave)
                     ELSE saveTimers

\* handlePropertyChange(property, value) of the inspector, for its text and
\* plain style controls
HandlePropertyChange(property, value) ==
    /\ selectedElement # 0
    /\ editor = NoEditor
    /\ recorded < MaxRecords
    /\ property = TextContent => ~HasElementChildren(tree, selectedElement)
    /\ tree' = LiveMutation(tree, selectedElement, property, value)
    /\ AddStyleEdit(generateSelectorForElement(tree, selectedElement), property, value)
    /\ recorded' = recorded + 1
    /\ UNCHANGED sessionVars
    /\ UNCHANGED codecVars
    /\ UNCHANGED loadVars
    /\ UNCHANGED <<currentView, currentProject, generatedResult, editMode, savedDesigns,
                   prismSavedDesigns, editsKey, designsTimer, selectedElement>>

(***************************************************************************)
(* Timers and reload.                                                      *)
(***************************************************************************)
\* nothing in this revision sets data-applying-edits on the surface
ApplyingEdits == FALSE

\* the callback of addStyleEdit's setTimeout(..., 300)
SaveTimerFires ==
    /\ saveTimers # << >>
    /\ saveTimers' = Tail(saveTimers)
    /\ prismSavedDesigns' =
         IF ~ApplyingEdits
         THEN saveProjectWithEdits(prismSavedDesigns, Head(saveTimers), currentProjectEditsRef)
         ELSE prismSavedDesigns
    /\ UNCHANGED sessionVars
    /\ UNCHANGED codecVars
    /\ UNCHANGED loadVars
    /\ UNCHANGED <<currentView, currentProject, generatedResult, editMode, savedDesigns,
                   currentProjectEditsRef, editsKey, designsTimer, tree, selectedElement,
                   recorded>>

\* the callback of the debounced save of savedDesigns (setTimeout(..., 2000))
DesignsTimerFires ==
    /\ designsTimer
    /\ designsTimer' = FALSE
    /\ prismSavedDesigns' = savedDesigns
    /\ UNCHANGED sessionVars
    /\ UNCHANGED codecVars
    /\ UNCHANGED loadVars
    /\ UNCHANGED <<currentView, currentProject, generatedResult, editMode, savedDesigns,
                   currentProjectEditsRef, editsKey, saveTimers, tree, selectedElement,
                   recorded>>

\* the page is reloaded: beforeunload runs saveEdits, every timer is dropped,
\* App mounts again and loadData restores what localStorage holds
Reload ==
    /\ LET stored == saveEdits(prismSavedDesigns, currentProject, currentProjectEditsRef) IN
        /\ prismSavedDesigns' = stored
        /\ savedDesigns' = stored
    /\ currentProjectEditsRef' = << >>
    /\ saveTimers' = << >>
    /\ designsTimer' = TRUE
    /\ editMode' = FALSE
    /\ tree' = NoTree
    /\ selectedElement' = 0
    /\ LiveEditorMounts
    /\ UNCHANGED codecVars
    /\ pointerOver' = {}            \* the elements of the surface are new ones
    /\ UNCHANGED textNodes
    /\ UNCHANGED <<currentView, currentProject, generatedResult, editsKey, recorded>>

Next ==
    \/ \E id \in ProjectIds : HandleSubmit(id)
    \/ \E id \in ProjectIds : OpenProject(id)
    \/ GoToLanding
    \/ HandleToggleEditMode
    \/ HandleRefreshPreview
    \/ \E n \in ElementsOfDocuments : ClickElement(n)
    \/ HandleClosePanel
    \/ \E change \in InspectorChanges : HandlePropertyChange(change[1], change[2])
    \/ SaveTimerFires
    \/ DesignsTimerFires
    \/ Reload

Spec == Init /\ [][Next]_vars

(***************************************************************************)
(* Replay on its own: a stored ledger drawn from ReplayEntries is replayed *)
(* on the surface built from HeroDocument, by LivePreview's effect when    *)
(* the ledger is found under localStorage['edits-<id>'], and by            *)
(* applyStyleEdits of the earlier revision when it is handed the ledger.   *)
(***************************************************************************)
ReplayEntries ==
    { StyleEdit(<<"#", "title">>, "color", "#ff0000"),
      StyleEdit(<<".", "big">>, "color", "#00ff00"),
      StyleEdit(<<"#", "title">>, TextContent, "Hi"),
      StyleEdit(<<".", "hero">>, TextContent, "Hello"),
      StyleEdit(<<".", "hero">>, PageBackground, "#ff0000"),
      StyleEdit(<<"p", ":nth-of-type(", "2", ")">>, "color", "#ff0000"),
      StyleEdit(<<"p">>, "background", "#00ff00"),
      StyleEdit(<<".", "gone">>, "color", "#ff0000"),     \* matches no element
      StyleEdit(<< >>, "color", "#00ff00") }              \* querySelectorAll throws

\* the ledgers of at most MaxLedger entries, one entry per pair
Ledgers ==
    UNION {{ledger \in [1..k -> ReplayEntries] :
                \A i, j \in 1..k : ledger[i] = ledger[j] => i = j} : k \in 0..MaxLedger}

InitReplay ==
    /\ currentView = "project"
    /\ currentProject = ReplayProject
    /\ generatedResult = ReplayProject
    /\ editMode = FALSE
    /\ savedDesigns = [id \in {ReplayProject} |-> Design(<< >>)]
    /\ prismSavedDesigns = [id \in {ReplayProject} |-> Design(<< >>)]
    /\ \E ledger \in Ledgers, underEditsKey \in BOOLEAN :
          /\ editsKey = [id \in {ReplayProject} |->
                            IF underEditsKey THEN Design(ledger) ELSE NoDesign]
          /\ currentProjectEditsRef = IF underEditsKey THEN << >> ELSE ledger
    /\ saveTimers = << >>
    /\ designsTimer = FALSE
    /\ tree = NoTree
    /\ selectedElement = 0
    /\ recorded = 0
    /\ panelInteractionRef = FALSE
    /\ activeElement = "body"
    /\ editor = NoEditor
    /\ pointerOver = {}
    /\ textNodes = << >>
    /\ NoGradient

\* the timer callback of LivePreview's effect runs on the surface as it is
ReplayTimerFires ==
    /\ LivePreviewMounted
    /\ tree' = ReplayFor(currentProject, tree)
    /\ UNCHANGED sessionVars
    /\ UNCHANGED codecVars
    /\ UNCHANGED loadVars
    /\ UNCHANGED <<currentView, currentProject, generatedResult, editMode, savedDesigns,
                   currentProjectEditsRef, prismSavedDesigns, editsKey, saveTimers,
                   designsTimer, selectedElement, recorded>>

\* applyStyleEdits(edits, containerElement) is called with the ledger
ApplyStyleEditsCalled ==
    /\ LivePreviewMounted
    /\ currentProjectEditsRef # << >>
    /\ tree' = applyStyleEdits(tree, currentProjectEditsRef)
    /\ UNCHANGED sessionVars
    /\ UNCHANGED codecVars
    /\ UNCHANGED loadVars
    /\ UNCHANGED <<currentView, currentProject, generatedResult, editMode, savedDesigns,
                   currentProjectEditsRef, prismSavedDesigns, editsKey, saveTimers,
                   designsTimer, selectedElement, recorded>>

NextReplay ==
    \/ HandleToggleEditMode
    \/ HandleRefreshPreview
    \/ ReplayTimerFires
    \/ ApplyStyleEditsCalled

SpecReplay == InitReplay /\ [][NextReplay]_vars

(***************************************************************************)
(* An editing session on its own: the project of HeroDocument is open in   *)
(* edit mode, and the user selects elements, works in the properties       *)
(* panel, presses the pointer elsewhere, edits text in place and inserts   *)
(* icons.                                                                  *)
(***************************************************************************)
\* the texts typed into the inline editor
TypedTexts == {"Hello", "Bye"}

\* contentWrapper.querySelector('div, section, main, header')
ContainerTags == {"div", "section", "main", "header"}

\* the tags isTextElement accepts
TextTags == {"h1", "h2", "h3", "h4", "h5", "h6", "p", "span", "div", "a", "button", "label"}

\* isTextElement(element): every element of the documents above that has no
\* element children holds text
isTextElement(surface, n) ==
    surface[n].tag \in TextTags /\ ~HasElementChildren(surface, n)

\* the indices an element of the session's surface can have
SessionElements == 1..(Len(HeroDocument) + MaxIcons)

LastIndex(surface) == Cardinality(DOMAIN surface) - 1

Icons(surface) == {n \in Elements(surface) : IsIcon(surface, n)}

\* the element insertIcon creates
IconElement(container) ==
    [tag |-> "div", id |-> "", className |-> <<IconClass>>, parent |-> container,
     style |-> [p \in StyleProps |-> Unset], outline |-> Unset, text |-> Unset,
     attached |-> TRUE]

\* the first container of the surface in document order, else the wrapper
FirstContainer(surface) ==
    LET containers == {n \in Elements(surface) :
                          surface[n].attached /\ surface[n].tag \in ContainerTags}
    IN IF containers = {} THEN 0
       ELSE CHOOSE c \in containers : \A d \in containers : c <= d

\* the position of an element once an element was inserted after position c
Shifted(n, c) == IF n > c THEN n + 1 ELSE n

\* firstContainer.insertBefore(iconElement, firstContainer.firstChild): the icon
\* becomes the element that follows its container in document order
InsertFirstChild(surface, c, element) ==
    [n \in 0..(LastIndex(surface) + 1) |->
        IF n <= c THEN surface[n]
        ELSE IF n = c + 1 THEN element
        ELSE [surface[n - 1] EXCEPT !.parent = Shifted(@, c)]]

InitSession ==
    /\ currentView = "project"
    /\ currentProject = ReplayProject
    /\ generatedResult = ReplayProject
    /\ editMode = TRUE
    /\ savedDesigns = [id \in {ReplayProject} |-> Design(<< >>)]
    /\ prismSavedDesigns = [id \in {ReplayProject} |-> Design(<< >>)]
    /\ editsKey = [id \in {ReplayProject} |-> NoDesign]
    /\ currentProjectEditsRef = << >>
    /\ saveTimers = << >>
    /\ designsTimer = FALSE
    /\ tree = FreshTree(DocumentOf(ReplayProject))
    /\ selectedElement = 0
    /\ recorded = 0
    /\ panelInteractionRef = FALSE
    /\ activeElement = "body"
    /\ editor = NoEditor
    /\ pointerOver = {}
    /\ textNodes = << >>
    /\ NoGradient

\* insertIcon(iconName, iconSvg)
InsertIcon ==
    /\ LivePreviewMounted
    /\ editor = NoEditor
    /\ Cardinality(Icons(tree)) < MaxIcons
    /\ LET c == FirstContainer(tree) IN
        /\ tree' = InsertFirstChild(tree, c, IconElement(c))
        /\ selectedElement' = Shifted(selectedElement, c)
    /\ UNCHANGED codecVars
    /\ pointerOver' = {Shifted(n, FirstContainer(tree)) : n \in pointerOver}
    /\ UNCHANGED textNodes
    /\ UNCHANGED <<currentView, currentProject, generatedResult, editMode, savedDesigns,
                   currentProjectEditsRef, prismSavedDesigns, editsKey, saveTimers,
                   designsTimer, recorded, sessionVars>>

\* the click listener insertIcon gives the icon: it does not look for an open
\* properties panel
ClickIcon(n) ==
    /\ LivePreviewMounted
    /\ n \in Elements(tree) /\ tree[n].attached
    /\ IsIcon(tree, n)
    /\ editor = NoEditor
    /\ tree' = AddSelectionMark(ClearSelectionMarks(tree), n)
    /\ selectedElement' = n
    /\ UNCHANGED codecVars
    /\ UNCHANGED loadVars
    /\ UNCHANGED <<currentView, currentProject, generatedResult, editMode, savedDesigns,
                   currentProjectEditsRef, prismSavedDesigns, editsKey, saveTimers,
                   designsTimer, recorded, sessionVars>>

(***************************************************************************)
(* The properties panel and the pointer-down listener of the document.     *)
(***************************************************************************)
\* a handleClickOutside that looks at nothing but the preview
handleClickOutsideOfPreview(flag, focusInPanel, target) ==
    [clear |-> target # "preview", flag |-> FALSE]

\* handleClickOutside(event): whether the selection is cleared, and what it
\* leaves in panelInteractionRef.current
handleClickOutside(flag, focusInPanel, target) ==
    IF flag THEN [clear |-> FALSE, flag |-> FALSE]
    ELSE IF focusInPanel THEN [clear |-> FALSE, flag |-> FALSE]
    ELSE IF target \in {"panel", "preview"} THEN [clear |-> FALSE, flag |-> FALSE]
    ELSE [clear |-> TRUE, flag |-> FALSE]

\* handlePanelMouseDown.  Whether the document's listener still receives the
\* event after stopPropagation depends on where React attaches its listeners
\* (the document, or the root container); the source does not fix the version.
HandlePanelMouseDown ==
    /\ selectedElement # 0
    /\ editor = NoEditor
    /\ \E onFocusable, reachesDocument \in BOOLEAN :
          LET r == IF reachesDocument
                   THEN handleClickOutside(TRUE, activeElement = "panel", "panel")
                   ELSE [clear |-> FALSE, flag |-> TRUE]
          IN /\ selectedElement' = IF r.clear THEN 0 ELSE selectedElement
             /\ panelInteractionRef' = r.flag
             /\ activeElement' = IF onFocusable THEN activeElement ELSE "body"
    /\ UNCHANGED codecVars
    /\ UNCHANGED loadVars
    /\ UNCHANGED <<currentView, currentProject, generatedResult, editMode, savedDesigns,
                   currentProjectEditsRef, prismSavedDesigns, editsKey, saveTimers,
                   designsTimer, tree, recorded, editor>>

\* the events of the panel that handlePanelEvent is the handler of: onMouseUp
\* stands for the pointer and touch events, onKeyDown for the keyboard ones
PanelEventTypes == {"mouseup", "keydown", "focus"}

\* handlePanelEvent
HandlePanelEvent(type) ==
    /\ selectedElement # 0
    /\ editor = NoEditor
    /\ type = "keydown" => activeElement = "panel"
    /\ panelInteractionRef' = TRUE
    /\ activeElement' = IF type = "focus" THEN "panel" ELSE activeElement
    /\ UNCHANGED codecVars
    /\ UNCHANGED loadVars
    /\ UNCHANGED <<currentView, currentProject, generatedResult, editMode, savedDesigns,
                   currentProjectEditsRef, prismSavedDesigns, editsKey, saveTimers,
                   designsTimer, tree, selectedElement, recorded, editor>>

\* where a pointer-down outside the panel can land
PointerTargets == {"outside", "preview"}

\* mousedown outside the panel while an element is selected (the listener is
\* attached only then): handleClickOutside, then the focus leaves the panel
PointerDown(target) ==
    /\ selectedElement # 0
    /\ editor = NoEditor
    /\ LET r == handleClickOutside(panelInteractionRef, activeElement = "panel", target)
       IN /\ selectedElement' = IF r.clear THEN 0 ELSE selectedElement
          /\ panelInteractionRef' = r.flag
    /\ activeElement' = "body"
    /\ UNCHANGED codecVars
    /\ UNCHANGED loadVars
    /\ UNCHANGED <<currentView, currentProject, generatedResult, editMode, savedDesigns,
                   currentProjectEditsRef, prismSavedDesigns, editsKey, saveTimers,
                   designsTimer, tree, recorded, editor>>

(***************************************************************************)
(* Inline text editing.                                                    *)
(***************************************************************************)
\* the dblclick listener of a text element: startInlineEdit(element)
StartInlineEdit(n) ==
    /\ LivePreviewMounted
    /\ n \in Elements(tree) /\ tree[n].attached
    /\ ~IsIcon(tree, n)
    /\ isTextElement(tree, n)
    /\ editor = NoEditor
    /\ editor' = [element |-> n, originalText |-> tree[n].text, textContent |-> tree[n].text]
    /\ tree' = [tree EXCEPT ![n].attached = FALSE]
    /\ activeElement' = "editor"
    /\ UNCHANGED codecVars
    /\ UNCHANGED loadVars
    /\ UNCHANGED <<currentView, currentProject, generatedResult, editMode, savedDesigns,
                   currentProjectEditsRef, prismSavedDesigns, editsKey, saveTimers,
                   designsTimer, selectedElement, recorded, panelInteractionRef>>

\* the user types in the contentEditable editor
TypeInEditor(text) ==
    /\ editor # NoEditor
    /\ editor' = [editor EXCEPT !.textContent = text]
    /\ UNCHANGED codecVars
    /\ UNCHANGED loadVars
    /\ UNCHANGED <<currentView, currentProject, generatedResult, editMode, savedDesigns,
                   currentProjectEditsRef, prismSavedDesigns, editsKey, saveTimers,
                   designsTimer, tree, selectedElement, recorded, panelInteractionRef,
                   activeElement>>

\* finishEdit(save): the text is written when save is set and the text differs,
\* and the element takes the place of the editor again
finishEdit(surface, ed, save) ==
    [surface EXCEPT ![ed.element] =
        [@ EXCEPT !.text = IF save /\ ed.textContent # ed.originalText
                           THEN ed.textContent ELSE @,
                  !.attached = TRUE]]

\* the keydown listener of the editor, for Enter without shift and for Escape.
\* replaceChild removes the focused editor from the document; a browser that
\* fires blur on an element removed while focused runs the blur listener,
\* finishEdit(true), before replaceChild returns, and another browser does not
EditorKeydown(key) ==
    /\ editor # NoEditor
    /\ \E blurOnRemoval \in BOOLEAN :
          tree' = IF blurOnRemoval
                  THEN finishEdit(finishEdit(tree, editor, key = "Enter"), editor, TRUE)
                  ELSE finishEdit(tree, editor, key = "Enter")
    /\ editor' = NoEditor
    /\ activeElement' = "body"
    /\ UNCHANGED codecVars
    /\ UNCHANGED loadVars
    /\ UNCHANGED <<currentView, currentProject, generatedResult, editMode, savedDesigns,
                   currentProjectEditsRef, prismSavedDesigns, editsKey, saveTimers,
                   designsTimer, selectedElement, recorded, panelInteractionRef>>

\* the blur listener of the editor: the focus leaves it
EditorBlur ==
    /\ editor # NoEditor
    /\ tree' = finishEdit(tree, editor, TRUE)
    /\ editor' = NoEditor
    /\ activeElement' = "body"
    /\ UNCHANGED codecVars
    /\ UNCHANGED loadVars
    /\ UNCHANGED <<currentView, currentProject, generatedResult, editMode, savedDesigns,
                   currentProjectEditsRef, prismSavedDesigns, editsKey, saveTimers,
                   designsTimer, selectedElement, recorded, panelInteractionRef>>

(***************************************************************************)
(* Preset buttons and page settings of the properties panel.               *)
(***************************************************************************)
Presets == {"glassmorphism", "rounded", "small-shadow", "remove-text-shadow"}

\* the addStyleEdit calls of the onClick of each preset button, in their order
PresetEdits(preset) ==
    IF preset = "glassmorphism" THEN
        << <<"backdrop-filter", "blur(10px)">>,
           <<"background", "rgba(255, 255, 255, 0.25)">>,
           <<"border", "1px solid rgba(255, 255, 255, 0.18)">>,
           <<"border-radius", "16px">>,
           <<"box-shadow", "0 8px 32px 0 rgba(31, 38, 135, 0.37)">> >>
    ELSE IF preset = "rounded" THEN << <<"border-radius", "8px">> >>
    ELSE IF preset = "small-shadow" THEN
        << <<"box-shadow",
             "0 4px 6px -1px rgba(0, 0, 0, 0.1), 0 2px 4px -1px rgba(0, 0, 0, 0.06)">> >>
    ELSE << <<"text-shadow", "none">> >>

\* the tags the section of a preset is rendered for
PresetTags(preset) ==
    IF preset = "remove-text-shadow" THEN {"h1", "h2", "h3", "p", "span", "a"}
    ELSE {"div", "button", "section", "article"}

\* consecutive addStyleEdit calls on the ledger
RECURSIVE RecordAll(_, _, _)
RecordAll(edits, selector, changes) ==
    IF changes = << >> THEN edits
    ELSE RecordAll(RecordEdit(edits, selector, Head(changes)[1], Head(changes)[2]),
                   selector, Tail(changes))

\* onClick of a preset button: addStyleEdit calls and nothing else
ApplyPreset(preset) ==
    /\ selectedElement # 0
    /\ editor = NoEditor
    /\ recorded < MaxRecords
    /\ tree[selectedElement].tag \in PresetTags(preset)
    /\ currentProjectEditsRef' =
           RecordAll(currentProjectEditsRef,
                     generateSelectorForElement(tree, selectedElement), PresetEdits(preset))
    /\ saveTimers' = IF ProjectIdForSave # NoProject
                     THEN saveTimers \o [i \in DOMAIN PresetEdits(preset) |-> ProjectIdForSave]
                     ELSE saveTimers
    /\ recorded' = recorded + 1
    /\ UNCHANGED codecVars
    /\ UNCHANGED loadVars
    /\ UNCHANGED <<currentView, currentProject, generatedResult, editMode, savedDesigns,
                   prismSavedDesigns, editsKey, designsTimer, tree, selectedElement,
                   sessionVars>>

\* the values typed into the page settings inputs
PageBackgrounds == {"#1a1a2e", "#ffffff"}

\* onChange of the Background Color inputs of the page settings: the style of
\* the preview container is assigned and nothing else
PageBackgroundInput(value) ==
    /\ selectedElement # 0
    /\ editor = NoEditor
    /\ tree' = [tree EXCEPT ![0].style["background"] = value]
    /\ UNCHANGED codecVars
    /\ UNCHANGED loadVars
    /\ UNCHANGED <<currentView, currentProject, generatedResult, editMode, savedDesigns,
                   currentProjectEditsRef, prismSavedDesigns, editsKey, saveTimers,
                   designsTimer, selectedElement, recorded, sessionVars>>

NextSession ==
    \/ \E n \in SessionElements : ClickElement(n)
    \/ \E n \in SessionElements : ClickIcon(n)
    \/ InsertIcon
    \/ HandleClosePanel
    \/ HandlePanelMouseDown
    \/ \E type \in PanelEventTypes : HandlePanelEvent(type)
    \/ \E target \in PointerTargets : PointerDown(target)
    \/ \E change \in InspectorChanges : HandlePropertyChange(change[1], change[2])
    \/ HandleRefreshPreview

\* selection, the properties panel and inserted icons
SpecSession == InitSession /\ [][NextSession]_vars

NextInlineEdit ==
    \/ \E n \in SessionElements : ClickElement(n)
    \/ HandleClosePanel
    \/ \E change \in InspectorChanges : HandlePropertyChange(change[1], change[2])
    \/ \E n \in SessionElements : StartInlineEdit(n)
    \/ \E text \in TypedTexts : TypeInEditor(text)
    \/ \E key \in {"Enter", "Escape"} : EditorKeydown(key)
    \/ EditorBlur
    \/ HandleRefreshPreview

\* inline text editing beside the inspector
SpecInlineEdit == InitSession /\ [][NextInlineEdit]_vars

NextInspector ==
    \/ \E n \in SessionElements : ClickElement(n)
    \/ HandleClosePanel
    \/ \E change \in InspectorChanges : HandlePropertyChange(change[1], change[2])
    \/ \E preset \in Presets : ApplyPreset(preset)
    \/ \E value \in PageBackgrounds : PageBackgroundInput(value)
    \/ HandleRefreshPreview
    \/ SaveTimerFires

\* the controls of the properties panel
SpecInspector == InitSession /\ [][NextInspector]_vars

(***************************************************************************)
(* Gradient codec of the inspector.  A string is kept as the sequence of   *)
(* its characters.  handlePropertyChange builds the gradient string from   *)
(* the colors of the gradient editor; the inspector extracts the colors    *)
(* from the gradient string of the selected element.                       *)
(***************************************************************************)
Digits == {"0", "1", "2", "3", "4", "5", "6", "7", "8", "9"}
HexDigits == Digits \cup {"a", "b", "c", "d", "e", "f", "A", "B", "C", "D", "E", "F"}
WhiteSpace == {" "}

\* color tokens of the three notations
RgbTokens ==
    { <<"r", "g", "b", "(", "1", ",", "2", ",", "3", ")">>,
      <<"r", "g", "b", "a", "(", "4", ",", " ", "5", ",", " ", "6", ",", " ", "0", ".", "5", ")">> }
HexTokens ==
    { <<"#", "a", "a", "b", "b", "c", "c">>,
      <<"#", "f", "0", "f">> }
HslTokens ==
    { <<"h", "s", "l", "(", "1", ",", "2", "%", ",", "3", "%", ")">>,
      <<"h", "s", "l", "a", "(", "4", ",", " ", "5", "%", ",", " ", "6", "%", ",", " ", "0", ".", "5", ")">> }
ColorFamilies == {RgbTokens, HexTokens, HslTokens}

\* the lists of 1 to MaxColors tokens of one notation
ColorLists ==
    UNION {UNION {[1..k -> family] : k \in 1..MaxColors} : family \in ColorFamilies}

\* every color at the start of the gradient
PercentageZero(index, length) == <<"0">>

\* String((index / (colors.length - 1)) * 100), and 0 for a single color
Percentage(index, length) ==
    IF length = 1 \/ index = 0 THEN <<"0">>
    ELSE IF index = length - 1 THEN <<"1", "0", "0">>
    ELSE IF 2 * index = length - 1 THEN <<"5", "0">>
    ELSE IF 4 * index = length - 1 THEN <<"2", "5">>
    ELSE IF 4 * index = 3 * (length - 1) THEN <<"7", "5">>
    ELSE IF 3 * index = length - 1
        THEN <<"3", "3", ".", "3", "3", "3", "3", "3", "3", "3", "3", "3", "3", "3", "3", "3", "3">>
    ELSE IF 3 * index = 2 * (length - 1)
        THEN <<"6", "6", ".", "6", "6", "6", "6", "6", "6", "6", "6", "6", "6", "6", "6", "6", "6">>
    ELSE IF 5 * index = length - 1 THEN <<"2", "0">>
    ELSE IF 5 * index = 2 * (length - 1) THEN <<"4", "0">>
    ELSE IF 5 * index = 3 * (length - 1) THEN <<"6", "0">>
    ELSE <<"8", "0">>

\* colors.map((color, index) => `${color} ${percentage}%`).join(', ')
RECURSIVE ColorStops(_, _)
ColorStops(colors, index) ==
    IF index >= Len(colors) THEN << >>
    ELSE (IF index = 0 THEN << >> ELSE <<",", " ">>)
         \o colors[index + 1] \o <<" ">> \o Percentage(index, Len(colors)) \o <<"%">>
         \o ColorStops(colors, index + 1)

\* `linear-gradient(135deg, ${colorStops})`
encode(colors) ==
    <<"l", "i", "n", "e", "a", "r", "-", "g", "r", "a", "d", "i", "e", "n", "t", "(",
      "1", "3", "5", "d", "e", "g", ",", " ">> \o ColorStops(colors, 0) \o <<")">>

\* Matching.  A position is an index into the string; 0 stands for "no match".
\* the literal at position i
Lit(s, i, literal) ==
    IF i # 0 /\ i + Len(literal) - 1 <= Len(s) /\ SubSeq(s, i, i + Len(literal) - 1) = literal
        THEN i + Len(literal) ELSE 0

\* the literal at position i, or nothing
OptLit(s, i, literal) == IF Lit(s, i, literal) # 0 THEN Lit(s, i, literal) ELSE i

\* c* for the characters of a class
RECURSIVE Many(_, _, _)
Many(s, i, class) ==
    IF i = 0 THEN 0
    ELSE IF i <= Len(s) /\ s[i] \in class THEN Many(s, i + 1, class)
    ELSE i

\* c+ for the characters of a class
Some(s, i, class) == IF i # 0 /\ i <= Len(s) /\ s[i] \in class THEN Many(s, i + 1, class) ELSE 0

\* \s*(\d+)\s*
Number(s, i) == Many(s, Some(s, Many(s, i, WhiteSpace), Digits), WhiteSpace)

\* \s*(\d+)%\s*
PercentNumber(s, i) ==
    Many(s, Lit(s, Some(s, Many(s, i, WhiteSpace), Digits), <<"%">>), WhiteSpace)

\* (?:,\s*([\d.]+))?\s*\)
AlphaAndClose(s, i) ==
    LET alpha == Some(s, Many(s, Lit(s, i, <<",">>), WhiteSpace), Digits \cup {"."})
    IN Lit(s, Many(s, IF alpha # 0 THEN alpha ELSE i, WhiteSpace), <<")">>)

\* the patterns in another order: hsl/hsla is tried first
PatternsHslFirst == <<"hsl", "rgb", "hex6", "hex3">>

\* the four patterns of the inspector, in the order it tries them
Patterns == <<"rgb", "hex6", "hex3", "hsl">>

\* where the match of a pattern that begins at position i ends, 0 for none
MatchAt(pattern, s, i) ==
    IF pattern = "rgb" THEN
        LET open == Lit(s, OptLit(s, Lit(s, i, <<"r", "g", "b">>), <<"a">>), <<"(">>)
            red == Number(s, open)
            green == Number(s, Lit(s, red, <<",">>))
            blue == Number(s, Lit(s, green, <<",">>))
        IN AlphaAndClose(s, blue)
    ELSE IF pattern = "hsl" THEN
        LET open == Lit(s, OptLit(s, Lit(s, i, <<"h", "s", "l">>), <<"a">>), <<"(">>)
            hue == Number(s, open)
            saturation == PercentNumber(s, Lit(s, hue, <<",">>))
            lightness == PercentNumber(s, Lit(s, saturation, <<",">>))
        IN AlphaAndClose(s, lightness)
    ELSE LET count == IF pattern = "hex6" THEN 6 ELSE 3
             digits == Lit(s, i, <<"#">>)
         IN IF /\ digits # 0
               /\ digits + count - 1 <= Len(s)
               /\ \A k \in digits..(digits + count - 1) : s[k] \in HexDigits
            THEN digits + count ELSE 0

\* Array.from(gradientSource.matchAll(pattern)).map(match => match[0])
RECURSIVE MatchAll(_, _, _)
MatchAll(pattern, s, i) ==
    LET starts == {j \in i..Len(s) : MatchAt(pattern, s, j) # 0}
    IN IF starts = {} THEN << >>
       ELSE LET first == CHOOSE j \in starts : \A k \in starts : j <= k
                end == MatchAt(pattern, s, first)
            IN <<SubSeq(s, first, end - 1)>> \o MatchAll(pattern, s, end)

\* the loop over the patterns: the matches of the first pattern that has any
RECURSIVE ExtractFrom(_, _)
ExtractFrom(source, k) ==
    IF k > Len(Patterns) THEN << >>
    ELSE IF MatchAll(Patterns[k], source, 1) # << >> THEN MatchAll(Patterns[k], source, 1)
    ELSE ExtractFrom(source, k + 1)

extractColors(source) == ExtractFrom(source, 1)

\* the gradient editor holds a list of colors for the selected element
InitCodec ==
    /\ currentView = "project"
    /\ currentProject = ReplayProject
    /\ generatedResult = ReplayProject
    /\ editMode = TRUE
    /\ savedDesigns = [id \in {ReplayProject} |-> Design(<< >>)]
    /\ prismSavedDesigns = [id \in {ReplayProject} |-> Design(<< >>)]
    /\ editsKey = [id \in {ReplayProject} |-> NoDesign]
    /\ currentProjectEditsRef = << >>
    /\ saveTimers = << >>
    /\ designsTimer = FALSE
    /\ tree = FreshTree(DocumentOf(ReplayProject))
    /\ selectedElement = 0
    /\ recorded = 0
    /\ panelInteractionRef = FALSE
    /\ activeElement = "body"
    /\ editor = NoEditor
    /\ pointerOver = {}
    /\ textNodes = << >>
    /\ gradientColors \in ColorLists
    /\ gradientSource = << >>
    /\ allColors = << >>

\* the gradient branch of handlePropertyChange builds the gradient string
EncodeGradient ==
    /\ gradientColors # << >>
    /\ gradientSource = << >>
    /\ gradientSource' = encode(gradientColors)
    /\ UNCHANGED <<currentView, currentProject, generatedResult, editMode, savedDesigns,
                   currentProjectEditsRef, prismSavedDesigns, editsKey, saveTimers,
                   designsTimer, tree, selectedElement, recorded, sessionVars, loadVars,
                   gradientColors, allColors>>

\* the inspector extracts the colors from the gradient string
ExtractColors ==
    /\ gradientSource # << >>
    /\ allColors' = extractColors(gradientSource)
    /\ UNCHANGED <<currentView, currentProject, generatedResult, editMode, savedDesigns,
                   currentProjectEditsRef, prismSavedDesigns, editsKey, saveTimers,
                   designsTimer, tree, selectedElement, recorded, sessionVars, loadVars,
                   gradientColors, gradientSource>>

NextCodec == EncodeGradient \/ ExtractColors

SpecCodec == InitCodec /\ [][NextCodec]_vars

(***************************************************************************)
(* Properties of the Edit Ledger and of its persistence.                   *)
(***************************************************************************)
\* at most one entry per (selector, property) pair
OnePerPair(edits) ==
    \A i, j \in DOMAIN edits :
        (edits[i].selector = edits[j].selector /\ edits[i].property = edits[j].property)
            => i = j

\* the (selector, property) pairs of a ledger
Pairs(edits) == {<<edits[i].selector, edits[i].property>> : i \in DOMAIN edits}

\* the selectors a record can store while project `id` is the one displayed:
\* the clicked element carries the selection mark when its selector is computed
SelectorsOf(id) ==
    LET fresh == FreshTree(DocumentOf(id)) IN
    {generateSelectorForElement(AddSelectionMark(fresh, n), n) : n \in Elements(fresh)}

\* the value the surface shows on element n for the property of an edit
Shown(surface, n, property) ==
    IF property = TextContent THEN surface[n].text ELSE surface[n].style[property]

\* C1: after any sequence of record calls the in-memory ledger holds at most
\* one entry per (selector, property) pair, and after each record call the
\* entry of the recorded pair carries the value of that call.
C1_LastWriteWins ==
    [][\A change \in InspectorChanges :
          HandlePropertyChange(change[1], change[2]) =>
             LET selector == generateSelectorForElement(tree, selectedElement)
                 ledger == currentProjectEditsRef'
                 same == {i \in DOMAIN ledger : /\ ledger[i].selector = selector
                                                /\ ledger[i].property = change[1]}
             IN /\ OnePerPair(ledger)
                /\ Cardinality(same) = 1
                /\ \A i \in same : ledger[i].value = change[2]]_vars

\* two record calls since the page was loaded, both for one pair, the second
\* with '#00ff00': one entry is left, and it carries '#00ff00'
C1_Witness ==
    /\ Len(saveTimers) = 2
    /\ Len(currentProjectEditsRef) = 1
    /\ currentProjectEditsRef[1].property = "color"
    /\ currentProjectEditsRef[1].value = "#00ff00"
    /\ tree # NoTree /\ selectedElement # 0
    /\ tree[selectedElement].style["color"] = "#00ff00"

\* C2: when the document of a project is rendered again, every entry stored
\* for that project by record is applied to the nodes its selector matches.
C2_PersistedEditsReplayed ==
    [][(tree = NoTree /\ tree' # NoTree /\ currentProject' # NoProject) =>
          LET edits == prismSavedDesigns'[currentProject'].edits IN
          \A i \in DOMAIN edits :
              \A n \in querySelectorAll(tree', edits[i].selector) :
                  Shown(tree', n, edits[i].property) = edits[i].value]_vars

\* C3: the selector stored by a record call, resolved against a freshly
\* rendered tree of the same document, matches the node that was edited.
C3_StoredSelectorResolves ==
    [][recorded' = recorded + 1 =>
          LET ledger == currentProjectEditsRef'
              fresh == FreshTree(DocumentOf(generatedResult))
          IN selectedElement \in querySelectorAll(fresh, ledger[Len(ledger)].selector)]_vars

\* C4: the ledger stored under a project id holds only entries recorded while
\* that project was the one displayed.
C4_LedgerOfItsProject ==
    \A id \in ProjectIds :
        \A i \in DOMAIN prismSavedDesigns[id].edits :
            prismSavedDesigns[id].edits[i].selector \in SelectorsOf(id)

\* C5: persisting a later edit of a project never drops a (selector, property)
\* pair already stored for that project.
C5_StoredEntriesKept ==
    [][SaveTimerFires =>
          \A id \in ProjectIds :
              Pairs(prismSavedDesigns[id].edits) \subseteq Pairs(prismSavedDesigns'[id].edits)]_vars

\* C6: once every timer has fired, each entry recorded for the project on
\* display is in the external store under that project's id.
C6_RecordedEntriesStored ==
    (saveTimers = << >> /\ ~designsTimer /\ generatedResult # NoProject) =>
        \A i \in DOMAIN currentProjectEditsRef :
            currentProjectEditsRef[i].selector \in SelectorsOf(generatedResult)
                => currentProjectEditsRef[i] \in Range(prismSavedDesigns[generatedResult].edits)

\* C7: a record call that replaces the entry of its pair within the debounce
\* window leaves one pending save, hence one write to the external store.
C7_BurstCoalesced ==
    [][(recorded' = recorded + 1 /\ Len(currentProjectEditsRef') = Len(currentProjectEditsRef))
          => Len(saveTimers') <= 1]_vars

(***************************************************************************)
(* Properties of replay.                                                   *)
(***************************************************************************)
\* the surface as rendered from the document on display, before any replay
FreshSurface == FreshTree(DocumentOf(generatedResult))

\* an entry whose selector parses and matches no element of the fresh surface
IsOrphan(edit) ==
    SelectorParses(edit.selector) /\ querySelectorAll(FreshSurface, edit.selector) = {}

WithoutOrphans(edits) == SelectSeq(edits, LAMBDA edit : ~IsOrphan(edit))

\* the value element n is to show for a property once `edits` is replayed:
\* that of the last entry of the property whose selector matches n
LastValue(edits, n, property) ==
    LET hits == {i \in DOMAIN edits :
                    /\ edits[i].property = property
                    /\ n \in querySelectorAll(FreshSurface, edits[i].selector)}
    IN IF hits = {} THEN Shown(FreshSurface, n, property)
       ELSE edits[CHOOSE i \in hits : \A j \in hits : j <= i].value

\* C9: replaying a ledger on a surface that is the result of replaying it once
\* on the freshly rendered tree leaves every node as it is.
C9_ReplayIdempotent ==
    [][/\ (ReplayTimerFires /\ tree = MountLivePreview(generatedResult, currentProject))
            => tree' = tree
       /\ (ApplyStyleEditsCalled /\ tree = applyStyleEdits(FreshSurface, currentProjectEditsRef))
            => tree' = tree]_vars

\* a ledger of two entries or more has been replayed twice on the fresh
\* surface, and the replay changed the surface
C9_Witness ==
    /\ LivePreviewMounted
    /\ editsKey[currentProject].saved
    /\ Len(editsKey[currentProject].edits) >= 2
    /\ tree # FreshSurface
    /\ tree = ReplaySavedEdits(ReplaySavedEdits(FreshSurface, editsKey[currentProject].edits),
                               editsKey[currentProject].edits)

\* C10: an entry whose selector matches no node is skipped and takes nothing
\* from the other entries: the replayed surface is the one the ledger without
\* its orphaned entries gives, and when every selector parses each node left
\* on the surface shows the value of the last entry that matches it.
C10_OrphanSkipped ==
    LivePreviewMounted =>
        IF editsKey[currentProject].saved
        THEN LET edits == editsKey[currentProject].edits IN
             /\ tree = ReplaySavedEdits(FreshSurface, WithoutOrphans(edits))
             /\ (\A i \in DOMAIN edits : SelectorParses(edits[i].selector)) =>
                    \A n \in Elements(tree) : \A property \in StyleProps \cup {TextContent} :
                        tree[n].attached =>
                            Shown(tree, n, property) = LastValue(edits, n, property)
        ELSE tree \in {FreshSurface,
                       applyStyleEdits(FreshSurface, WithoutOrphans(currentProjectEditsRef))}

\* a ledger of three entries, the second one orphaned, has been replayed and
\* the nodes of the first and of the third entry show their values
C10_Witness ==
    /\ LivePreviewMounted
    /\ editsKey[currentProject].saved
    /\ LET edits == editsKey[currentProject].edits IN
        /\ Len(edits) = 3
        /\ IsOrphan(edits[2]) /\ ~IsOrphan(edits[1]) /\ ~IsOrphan(edits[3])
        /\ \A i \in {1, 3} :
              /\ SelectorParses(edits[i].selector)
              /\ edits[i].property \in StyleProps
              /\ \A n \in querySelectorAll(FreshSurface, edits[i].selector) :
                    tree[n].style[edits[i].property] = edits[i].value
        /\ edits[1].selector # edits[3].selector

(***************************************************************************)
(* Properties of the selector codec and of the selection.                  *)
(***************************************************************************)
\* two surfaces with the same elements, each with the same tag, id, parent
\* and attachment: only class lists, styles and texts may differ
SameStructure(before, after) ==
    /\ DOMAIN before = DOMAIN after
    /\ \A n \in DOMAIN before :
          /\ before[n].tag = after[n].tag
          /\ before[n].id = after[n].id
          /\ before[n].parent = after[n].parent
          /\ before[n].attached = after[n].attached

\* C11: while the structure of the tree does not change, the selector computed
\* for a node is the same before it is selected, while it is selected and
\* after edits of its style or text, for both selector functions.
C11_SelectorStable ==
    [][(tree # NoTree /\ tree' # NoTree /\ SameStructure(tree, tree')) =>
          \A n \in Elements(tree) :
              tree[n].attached =>
                  /\ generateSelectorForElement(tree', n) = generateSelectorForElement(tree, n)
                  /\ getElementSelector(tree', n) = getElementSelector(tree, n)]_vars

\* C17: an element with a non-empty id gets the selector '#' followed by that
\* id, whatever its class list, tag and position, from the function that gives
\* the inspector its selector and from the one whose result is recorded in the
\* ledger; the entry recorded for such an element carries that selector.
C17_IdSelector ==
    [][tree' # NoTree =>
          \A n \in Elements(tree') :
              tree'[n].id # "" =>
                  /\ getElementSelector(tree', n) = <<"#", tree'[n].id>>
                  /\ generateSelectorForElement(tree', n) = <<"#", tree'[n].id>>
                  /\ (/\ selectedElement = n
                      /\ \E change \in InspectorChanges :
                             HandlePropertyChange(change[1], change[2]))
                        => currentProjectEditsRef'[Len(currentProjectEditsRef')].selector
                               = <<"#", tree'[n].id>>]_vars

\* an element with an id carries the selection class while it is selected, and an
\* entry recorded for it is in the ledger
C17_Witness ==
    /\ tree # NoTree
    /\ \E n \in Elements(tree) :
          /\ selectedElement = n
          /\ tree[n].id # ""
          /\ SelectedClass \in Range(tree[n].className)
          /\ \E i \in DOMAIN currentProjectEditsRef :
                currentProjectEditsRef[i].selector = <<"#", tree[n].id>>

\* the elements carrying the selection mark
Marked(surface) == {n \in Elements(surface) : SelectedClass \in Range(surface[n].className)}

\* C12: in every state of a session at most one element of the surface carries
\* the selection mark, and while an element is selected it is that element: a
\* click on element B (generated element or inserted icon) while A is marked
\* leaves B marked and A unmarked.
C12_OneMark ==
    tree # NoTree =>
        /\ Cardinality(Marked(tree)) <= 1
        /\ selectedElement # 0 => Marked(tree) = {selectedElement}

\* an element that was selected and styled through the inspector has lost its
\* mark to the inserted icon selected after it
C12_Witness ==
    /\ tree # NoTree
    /\ selectedElement # 0
    /\ IsIcon(tree, selectedElement)
    /\ Marked(tree) = {selectedElement}
    /\ \E a \in Elements(tree) : a # selectedElement /\ tree[a].style["color"] # Unset

\* C13: whenever an element is selected, a pointer-down whose target lies
\* outside both the surface and the properties panel clears the selection,
\* whatever events of the panel came before it.
C13_PointerDownOutsideClears ==
    [][(selectedElement # 0 /\ PointerDown("outside")) => selectedElement' = 0]_vars

\* C14: with an element selected, a pointer, focus or keyboard event inside the
\* properties panel, and a change made through one of its controls, leave that
\* element selected; of the panel's handlers only the close control clears it.
C14_PanelKeepsSelection ==
    [][(/\ selectedElement # 0
        /\ \/ HandlePanelMouseDown
           \/ \E type \in PanelEventTypes : HandlePanelEvent(type)
           \/ \E change \in InspectorChanges : HandlePropertyChange(change[1], change[2]))
          => selectedElement' = selectedElement]_vars

\* an element is still selected after a mousedown in the panel that the
\* document's listener received, and after a change made in the panel
C14_Witness ==
    /\ selectedElement # 0
    /\ ~panelInteractionRef
    /\ activeElement = "panel"
    /\ \E i \in DOMAIN currentProjectEditsRef :
          currentProjectEditsRef[i].selector = generateSelectorForElement(tree, selectedElement)

\* C15: when an inline edit is ended with Escape, the element is back in place
\* with the text it had when the edit began, whatever was typed into the
\* editor, and the ledger is as it was; whether or not the blur listener of
\* the editor runs as well.
C15_EscapeRestores ==
    [][(editor # NoEditor /\ EditorKeydown("Escape")) =>
          /\ tree'[editor.element].attached
          /\ tree'[editor.element].text = editor.originalText
          /\ currentProjectEditsRef' = currentProjectEditsRef]_vars

\* C16: when an inline edit is committed, by the editor losing the focus or by
\* Enter, with a text that differs from the original one, the element gets the
\* new text and the ledger gets an entry (selector of the element,
\* textContent, the new text).
C16_CommitRecorded ==
    [][(/\ editor # NoEditor
        /\ editor.textContent # editor.originalText
        /\ EditorBlur \/ EditorKeydown("Enter")) =>
          /\ tree'[editor.element].attached
          /\ tree'[editor.element].text = editor.textContent
          /\ \E i \in DOMAIN currentProjectEditsRef' :
                currentProjectEditsRef'[i] =
                    StyleEdit(generateSelectorForElement(tree', editor.element),
                              TextContent, editor.textContent)]_vars

\* C18: for every list of 1 to 5 color tokens of one notation (rgb/rgba, hex,
\* hsl/hsla), the colors extracted from the gradient string built from the list
\* are the tokens of the list, in the same order and number.
C18_GradientRoundTrip ==
    [][ExtractColors => allColors' = gradientColors]_vars

\* the value the surface shows for a property of an element; the surface keeps
\* the properties that some handler assigns on a live element
LiveValue(surface, n, property) ==
    IF property = TextContent THEN surface[n].text
    ELSE IF property \in DOMAIN surface[n].style THEN surface[n].style[property]
    ELSE Unset

InLedger(edits, selector, property, value) ==
    \E i \in DOMAIN edits : edits[i] = StyleEdit(selector, property, value)

\* C19: every change made through a control of the inspector, the preset
\* buttons and the page background inputs included, changes the live element
\* and records a ledger entry with the same property and value.
C19_ControlsChangeAndRecord ==
    [][/\ \A change \in InspectorChanges :
              HandlePropertyChange(change[1], change[2]) =>
                  /\ LiveValue(tree', selectedElement, change[1]) = change[2]
                  /\ InLedger(currentProjectEditsRef',
                              generateSelectorForElement(tree, selectedElement),
                              change[1], change[2])
       /\ \A preset \in Presets :
              ApplyPreset(preset) =>
                  \A i \in DOMAIN PresetEdits(preset) :
                      /\ LiveValue(tree', selectedElement, PresetEdits(preset)[i][1])
                             = PresetEdits(preset)[i][2]
                      /\ InLedger(currentProjectEditsRef',
                                  generateSelectorForElement(tree, selectedElement),
                                  PresetEdits(preset)[i][1], PresetEdits(preset)[i][2])
       /\ \A value \in PageBackgrounds :
              PageBackgroundInput(value) =>
                  /\ LiveValue(tree', 0, "background") = value
                  /\ \E i \in DOMAIN currentProjectEditsRef' :
                        currentProjectEditsRef'[i].value = value]_vars

\* C20: a manual refresh rebuilds the surface from the generated document,
\* which drops the live changes that were not recorded, and then replays the
\* ledger of the project on the rebuilt surface.
C20_RefreshRebuildsThenReplays ==
    [][HandleRefreshPreview =>
          tree' = ReplaySavedEdits(FreshTree(DocumentOf(generatedResult)),
                                   currentProjectEditsRef)]_vars

\* C22: for an element without an id, the selector is '.' followed by its
\* first class token alone when it has a class, and otherwise
\* 'tag:nth-of-type(k)', k being its 1-based position among the siblings of
\* its tag; for both selector functions.
C22_FirstClassOrPosition ==
    tree # NoTree =>
        \A n \in Elements(tree) :
            (tree[n].attached /\ tree[n].id = "") =>
                LET expected ==
                        IF tree[n].className # << >> THEN <<".", tree[n].className[1]>>
                        ELSE <<tree[n].tag, ":nth-of-type(",
                               Decimal[IndexAmongSiblings(tree, n) + 1], ")">>
                IN /\ generateSelectorForElement(tree, n) = expected
                   /\ getElementSelector(tree, n) = expected

\* C23: while element A is selected and the inspector is open, a click on
\* another element B of the surface selects B: the click listener acts (it
\* clears A's mark, marks B and hands B to the inspector) instead of returning.
C23_ClickSelectsOther ==
    (tree # NoTree /\ selectedElement # 0 /\ editor = NoEditor) =>
        \A b \in Elements(tree) :
            (tree[b].attached /\ ~IsIcon(tree, b) /\ b # selectedElement) =>
                ENABLED ClickElement(b)

\* C29: whenever no element is selected (after the close control of the panel,
\* after a pointer-down outside, after leaving edit mode), no element of the
\* surface carries the selection mark.
C29_IdleHasNoMark ==
    (tree # NoTree /\ selectedElement = 0) => Marked(tree) = {}

\* the ledger without the entries whose selector querySelectorAll rejects
WithoutUnresolvable(edits) == SelectSeq(edits, LAMBDA edit : SelectorParses(edit.selector))

C27_DesignsSaveKeepsEdits ==
    [][DesignsTimerFires =>
          \A id \in ProjectIds :
              (prismSavedDesigns[id].saved /\ prismSavedDesigns[id].edits # << >>) =>
                  /\ prismSavedDesigns'[id].saved
                  /\ prismSavedDesigns'[id].edits = prismSavedDesigns[id].edits]_vars

\* C28: after a burst of record calls for one project, once every pending
\* debounce timer has fired in scheduling order (the last one fires, or the
\* record call left none pending), the ledger stored under that project equals
\* the in-memory ledger.
C28_StoredEqualsMemory ==
    [][/\ (SaveTimerFires /\ saveTimers' = << >>) =>
            /\ prismSavedDesigns'[Head(saveTimers)].saved
            /\ prismSavedDesigns'[Head(saveTimers)].edits = currentProjectEditsRef'
       /\ (recorded' = recorded + 1 /\ saveTimers' = << >>) =>
            /\ prismSavedDesigns'[generatedResult].saved
            /\ prismSavedDesigns'[generatedResult].edits = currentProjectEditsRef']_vars

(***************************************************************************)
(* Extraction from a gradient string that holds colors of several          *)
(* notations.                                                              *)
(***************************************************************************)
MaxMixed == 3

\* the lists of 1 to MaxMixed tokens, of any notations
MixedColorLists ==
    UNION {[1..k -> RgbTokens \cup HexTokens \cup HslTokens] : k \in 1..MaxMixed}

\* the selected element carries a gradient of colors of any notations
InitExtraction ==
    /\ currentView = "project"
    /\ currentProject = ReplayProject
    /\ generatedResult = ReplayProject
    /\ editMode = TRUE
    /\ savedDesigns = [id \in {ReplayProject} |-> Design(<< >>)]
    /\ prismSavedDesigns = [id \in {ReplayProject} |-> Design(<< >>)]
    /\ editsKey = [id \in {ReplayProject} |-> NoDesign]
    /\ currentProjectEditsRef = << >>
    /\ saveTimers = << >>
    /\ designsTimer = FALSE
    /\ tree = FreshTree(DocumentOf(ReplayProject))
    /\ selectedElement = 0
    /\ recorded = 0
    /\ panelInteractionRef = FALSE
    /\ activeElement = "body"
    /\ editor = NoEditor
    /\ pointerOver = {}
    /\ textNodes = << >>
    /\ gradientColors \in MixedColorLists
    /\ gradientSource = << >>
    /\ allColors = << >>

SpecExtraction == InitExtraction /\ [][NextCodec]_vars

\* the tokens of a list that belong to a set of tokens, in the order of the list
TokensIn(colors, family) == SelectSeq(colors, LAMBDA token : token \in family)

SixDigitHex == {token \in HexTokens : Len(token) = 7}
ThreeDigitHex == {token \in HexTokens : Len(token) = 4}

Rgb102 == <<"r", "g", "b", "(", "1", "0", "2", ",", "1", "2", "6", ",", "2", "3", "4", ")">>
Rgb118 == <<"r", "g", "b", "(", "1", "1", "8", ",", "7", "5", ",", "1", "6", "2", ")">>
White == <<"#", "f", "f", "f", "f", "f", "f">>
Black == <<"#", "0", "0", "0", "0", "0", "0">>

\* the colors the gradient editor starts from, and the values of <input type="color">
EditorColors == {Rgb102, Rgb118}
PickerColors == {White, Black}

EditorLists == UNION {[1..k -> EditorColors] : k \in 1..MaxColors}

InitGradientEditor ==
    /\ currentView = "project"
    /\ currentProject = ReplayProject
    /\ generatedResult = ReplayProject
    /\ editMode = TRUE
    /\ savedDesigns = [id \in {ReplayProject} |-> Design(<< >>)]
    /\ prismSavedDesigns = [id \in {ReplayProject} |-> Design(<< >>)]
    /\ editsKey = [id \in {ReplayProject} |-> NoDesign]
    /\ currentProjectEditsRef = << >>
    /\ saveTimers = << >>
    /\ designsTimer = FALSE
    /\ tree = FreshTree(DocumentOf(ReplayProject))
    /\ selectedElement = 0
    /\ recorded = 0
    /\ panelInteractionRef = FALSE
    /\ activeElement = "body"
    /\ editor = NoEditor
    /\ pointerOver = {}
    /\ textNodes = << >>
    /\ gradientColors \in EditorLists
    /\ gradientSource = << >>
    /\ allColors = << >>

\* onChange of the color input of one color: newColors[index] = e.target.value,
\* then handlePropertyChange builds the gradient string from newColors
GradientColorInput(index, value) ==
    /\ index \in 1..Len(gradientColors)
    /\ gradientColors' = [gradientColors EXCEPT ![index] = value]
    /\ gradientSource' = encode(gradientColors')
    /\ UNCHANGED <<currentView, currentProject, generatedResult, editMode, savedDesigns,
                   currentProjectEditsRef, prismSavedDesigns, editsKey, saveTimers,
                   designsTimer, tree, selectedElement, recorded, sessionVars, loadVars, allColors>>

NextGradientEditor ==
    \/ EncodeGradient
    \/ \E index \in 1..MaxColors, value \in PickerColors : GradientColorInput(index, value)

SpecGradientEditor == InitGradientEditor /\ [][NextGradientEditor]_vars

\* decimal notation of a natural number, and the first digits of the fraction
\* rem/den as long division gives them
DigitChars == <<"0", "1", "2", "3", "4", "5", "6", "7", "8", "9">>

RECURSIVE DecimalText(_)
DecimalText(n) ==
    IF n < 10 THEN <<DigitChars[n + 1]>>
    ELSE DecimalText(n \div 10) \o <<DigitChars[(n % 10) + 1]>>

RECURSIVE FractionDigits(_, _, _)
FractionDigits(rem, den, count) ==
    IF count = 0 THEN << >>
    ELSE <<DigitChars[((rem * 10) \div den) + 1]>>
         \o FractionDigits((rem * 10) % den, den, count - 1)

\* the texts that stand for num/den percent: the quotient when the division is
\* exact, else the quotient cut after 4 to 16 decimals
StopTexts(num, den) ==
    IF num % den = 0 THEN {DecimalText(num \div den)}
    ELSE {DecimalText(num \div den) \o <<".">> \o FractionDigits(num % den, den, count) :
             count \in 4..16}

\* the color stops from the color of index i on, each color at i*100/(n-1)
\* percent, and at 0 percent when it is the only one
RECURSIVE EvenStops(_, _)
EvenStops(colors, i) ==
    IF i >= Len(colors) THEN {<< >>}
    ELSE LET texts == IF Len(colors) = 1 THEN {<<"0">>}
                      ELSE StopTexts(i * 100, Len(colors) - 1)
         IN {(IF i = 0 THEN << >> ELSE <<",", " ">>)
                 \o colors[i + 1] \o <<" ">> \o text \o <<"%">> \o rest :
                 text \in texts, rest \in EvenStops(colors, i + 1)}

\* 'linear-gradient(135deg, rgb(102,126,234) 0%, #ffffff 100%)'
ExampleGradient ==
    <<"l", "i", "n", "e", "a", "r", "-", "g", "r", "a", "d", "i", "e", "n", "t", "(",
      "1", "3", "5", "d", "e", "g", ",", " ", "r", "g", "b", "(", "1", "0", "2", ",",
      "1", "2", "6", ",", "2", "3", "4", ")", " ", "0", "%", ",", " ", "#", "f", "f",
      "f", "f", "f", "f", " ", "1", "0", "0", "%", ")">>

\* C26: the gradient string built from n colors is 'linear-gradient(135deg, '
\* followed by the colors in order, the i-th (from 0) at i*100/(n-1) percent
\* for n > 1 and at 0 percent for n = 1, and ')'; replacing the second color
\* of [rgb(102,126,234), rgb(118,75,162)] by #ffffff gives
\* 'linear-gradient(135deg, rgb(102,126,234) 0%, #ffffff 100%)'.
C26_EvenStops ==
    [][/\ gradientSource' # << >> =>
            \E stops \in EvenStops(gradientColors', 0) :
                gradientSource' =
                    <<"l", "i", "n", "e", "a", "r", "-", "g", "r", "a", "d", "i", "e", "n", "t",
                      "(", "1", "3", "5", "d", "e", "g", ",", " ">> \o stops \o <<")">>
       /\ (gradientColors = <<Rgb102, Rgb118>> /\ GradientColorInput(2, White)) =>
            gradientSource' = ExampleGradient]_vars

\* the second color of [rgb(102,126,234), rgb(118,75,162)] has been replaced by
\* #ffffff and the gradient string built again
C26_Witness ==
    /\ gradientColors = <<Rgb102, White>>
    /\ gradientSource = ExampleGradient

(***************************************************************************)
(* Hovering.  loadPreviewContent gives every generated element, and        *)
(* insertIcon gives the icon, a mouseenter and a mouseleave listener.      *)
(***************************************************************************)
HoverOutline == "1px solid rgba(59, 130, 246, 0.3)"

\* the mouseenter listener: the pointer comes from the parent's box
MouseEnter(n) ==
    /\ LivePreviewMounted
    /\ n \in Elements(tree) /\ tree[n].attached
    /\ n \notin pointerOver
    /\ tree[n].parent = 0 \/ tree[n].parent \in pointerOver
    /\ tree' = IF SelectedClass \notin Range(tree[n].className)
                   THEN [tree EXCEPT ![n].outline = HoverOutline]
                   ELSE tree
    /\ pointerOver' = pointerOver \cup {n}
    /\ UNCHANGED <<currentView, currentProject, generatedResult, editMode, savedDesigns,
                   currentProjectEditsRef, prismSavedDesigns, editsKey, saveTimers,
                   designsTimer, selectedElement, recorded, sessionVars, codecVars,
                   textNodes>>

\* the mouseleave listener: the pointer is in the box of no child
MouseLeave(n) ==
    /\ LivePreviewMounted
    /\ n \in Elements(tree) /\ tree[n].attached
    /\ n \in pointerOver
    /\ \A m \in pointerOver : tree[m].parent # n
    /\ tree' = IF SelectedClass \notin Range(tree[n].className)
                   THEN [tree EXCEPT ![n].outline = Unset]
                   ELSE tree
    /\ pointerOver' = pointerOver \ {n}
    /\ UNCHANGED <<currentView, currentProject, generatedResult, editMode, savedDesigns,
                   currentProjectEditsRef, prismSavedDesigns, editsKey, saveTimers,
                   designsTimer, selectedElement, recorded, sessionVars, codecVars,
                   textNodes>>

NextHover ==
    \/ \E n \in SessionElements : MouseEnter(n)
    \/ \E n \in SessionElements : MouseLeave(n)
    \/ \E n \in SessionElements : ClickElement(n)
    \/ \E n \in SessionElements : ClickIcon(n)
    \/ InsertIcon
    \/ HandleClosePanel
    \/ HandleRefreshPreview

\* the pointer moves over the surface of an open project in edit mode
SpecHover == InitSession /\ [][NextHover]_vars

\* C24: after the pointer leaves a node, the node carries no hover outline,
\* whether or not it was selected between pointer-enter and pointer-leave.
C24_NoOutlineAfterLeave ==
    [][\A n \in SessionElements : MouseLeave(n) => tree'[n].outline = Unset]_vars

(***************************************************************************)
(* Fragment stripping of loadPreviewContent.  The text of a text node is  *)
(* kept as the sequence of its code points.                                *)
(***************************************************************************)
MaxTextNodes == 2

\* the code points String.prototype.trim and \s take for white space
WhiteSpaceCodes == {9, 10, 11, 12, 13, 32, 160}

RECURSIVE TrimStart(_)
TrimStart(text) ==
    IF text # << >> /\ Head(text) \in WhiteSpaceCodes THEN TrimStart(Tail(text)) ELSE text

RECURSIVE TrimEnd(_)
TrimEnd(text) ==
    IF text # << >> /\ text[Len(text)] \in WhiteSpaceCodes
        THEN TrimEnd(SubSeq(text, 1, Len(text) - 1))
        ELSE text

\* text.trim()
Trim(text) == TrimEnd(TrimStart(text))

\* text.includes(part), text.startsWith(part), text.endsWith(part)
Includes(text, part) ==
    \E i \in 1..(Len(text) - Len(part) + 1) : SubSeq(text, i, i + Len(part) - 1) = part
StartsWith(text, part) == Len(part) <= Len(text) /\ SubSeq(text, 1, Len(part)) = part
EndsWith(text, part) ==
    Len(part) <= Len(text) /\ SubSeq(text, Len(text) - Len(part) + 1, Len(text)) = part

\* text.toLowerCase(), for the letters A to Z
ToLowerCase(text) ==
    [i \in DOMAIN text |-> IF text[i] \in 65..90 THEN text[i] + 32 ELSE text[i]]

\* text.length: a code point above U+FFFF takes two code units
RECURSIVE Utf16Length(_)
Utf16Length(text) ==
    IF text = << >> THEN 0
    ELSE (IF Head(text) > 65535 THEN 2 ELSE 1) + Utf16Length(Tail(text))

\* U+1F600-1F64F, U+1F300-1F5FF, U+1F680-1F6FF, U+1F1E0-1F1FF, U+2600-26FF,
\* U+2700-27BF
EmojiRanges ==
    (128512..128591) \cup (127744..128511) \cup (128640..128767) \cup (127456..127487)
    \cup (9728..9983) \cup (9984..10175)

\* a-zA-Z0-9
AlphaNumeric == (97..122) \cup (65..90) \cup (48..57)

\* the strings the filter looks for
Html == <<104, 116, 109, 108>>
EllipsisHtml == <<46, 46, 46, 104, 116, 109, 108>>

\* the test of the emoji pattern: some code point of the text lies in its ranges
isEmoji(text) == \E i \in DOMAIN text : text[i] \in EmojiRanges

\* the condition under which textNodes.forEach removes the node of a trimmed text
IsFragment(text) ==
    /\ ~isEmoji(text)
    /\ Utf16Length(text) < 50
    /\ \/ Includes(text, <<60>>)
       \/ Includes(text, Html)
       \/ Includes(text, <<60, 33>>)
       \/ Includes(text, <<47, 62>>)
       \/ Includes(text, <<38, 108, 116, 59>>)
       \/ Includes(text, <<38, 103, 116, 59>>)
       \/ text = << >>
       \/ text = Html
       \/ text = <<72, 84, 77, 76>>
       \/ ToLowerCase(text) = Html
       \/ Includes(text, EllipsisHtml)
       \/ Includes(text, <<104, 116, 109, 108, 46, 46, 46>>)
       \/ StartsWith(text, <<46, 46, 46>>) /\ Includes(text, Html)
       \/ EndsWith(text, <<46, 46, 46>>) /\ Includes(text, Html)
       \/ \A i \in DOMAIN text : text[i] \in {60, 62, 47} \cup WhiteSpaceCodes
       \/ ToLowerCase(text) = Html
       \/ ToLowerCase(text) = EllipsisHtml
       \/ ToLowerCase(text) = <<104, 116, 109, 108, 46, 46, 46>>
       \/ \A i \in DOMAIN text : text[i] \in WhiteSpaceCodes
       \/ \A i \in DOMAIN text : text[i] \notin AlphaNumeric \cup EmojiRanges

\* textNodes.forEach(...): the nodes that are left in tempDiv
RemoveFragments(nodes) == SelectSeq(nodes, LAMBDA text : ~IsFragment(Trim(text)))

\* single characters that Unicode lists as emoji or pictographs: U+1F600,
\* U+1F30D, U+1F680, U+2600, U+2702, U+1F916, U+1F984, U+2B50
Pictographs == {128512, 127757, 128640, 9728, 9986, 129302, 129412, 11088}

\* the texts of the text nodes of a generated document
Texts ==
    {<<c>> : c \in Pictographs}
    \cup { EllipsisHtml, Html,
           <<72, 101, 108, 108, 111>>,        \* Hello
           <<32>>,                               \* a blank between two tags
           <<47, 62>>,                           \* />
           <<32, 71, 111, 32>> }             \* " Go "

TextNodeLists == UNION {[1..k -> Texts] : k \in 1..MaxTextNodes}

\* loadPreviewContent has parsed the body of the document into tempDiv
InitFragments ==
    /\ currentView = "project"
    /\ currentProject = ReplayProject
    /\ generatedResult = ReplayProject
    /\ editMode = TRUE
    /\ savedDesigns = [id \in {ReplayProject} |-> Design(<< >>)]
    /\ prismSavedDesigns = [id \in {ReplayProject} |-> Design(<< >>)]
    /\ editsKey = [id \in {ReplayProject} |-> NoDesign]
    /\ currentProjectEditsRef = << >>
    /\ saveTimers = << >>
    /\ designsTimer = FALSE
    /\ tree = NoTree
    /\ selectedElement = 0
    /\ recorded = 0
    /\ panelInteractionRef = FALSE
    /\ activeElement = "body"
    /\ editor = NoEditor
    /\ pointerOver = {}
    /\ textNodes \in TextNodeLists
    /\ NoGradient

\* the loop over the text nodes of tempDiv
StripFragments ==
    /\ textNodes # << >>
    /\ textNodes' = RemoveFragments(textNodes)
    /\ UNCHANGED <<currentView, currentProject, generatedResult, editMode, savedDesigns,
                   currentProjectEditsRef, prismSavedDesigns, editsKey, saveTimers,
                   designsTimer, tree, selectedElement, recorded, sessionVars, codecVars,
                   pointerOver>>

SpecFragments == InitFragments /\ [][StripFragments]_vars

\* C21: fragment stripping removes a text node whose whole content is
\* '...html', and keeps a text node whose whole content is a single emoji or
\* pictographic character, for every such character.
C21_StripsFragmentsKeepsEmoji ==
    [][StripFragments =>
          /\ EllipsisHtml \notin Range(textNodes')
          /\ \A i \in DOMAIN textNodes :
                (Len(textNodes[i]) = 1 /\ textNodes[i][1] \in Pictographs) =>
                    textNodes[i] \in Range(textNodes')]_vars

====
